---- MODULE Spec2Model ----
(***************************************************************************)
(* A model of github.com/reverted/authorizer.                              *)
(*                                                                         *)
(* Part 1 (specification Spec): the notary of notary.go.  Several          *)
(* goroutines call Notarize on one shared notary.  notarize reads the      *)
(* cached PublicKey WITHOUT taking the mutex; refreshPublicKey takes the   *)
(* mutex, fetches the key document and stores the first key.  Every read   *)
(* and write of the shared field is a step of its own, so that every       *)
(* interleaving the unsynchronised reads allow is a behaviour: a racy read *)
(* of the pointer-sized field returns a value some store wrote (the Go     *)
(* memory model rules out torn words), either the one before or the one    *)
(* after a concurrent store, and both orders are interleavings here.       *)
(***************************************************************************)
EXTENDS Integers, Sequences, FiniteSets, TLC

\* ------------------------------------------------------------------ bounds
NumProcs == 2       \* goroutines calling Notarize concurrently
MaxCalls == 2       \* Notarize calls made in all
MaxNow == 2         \* last instant of the clock read by time.Now()
MaxDocLen == 2      \* keys listed in a served key document

Procs == 1..NumProcs

\* ------------------------------------------------------------- the values
NoKey == "nil"                    \* (*rsa.PublicKey)(nil)
RSAKeys == {"K1", "K2"}           \* keys whose dynamic type is *rsa.PublicKey
OtherKeys == {"EC"}               \* keys of another type (e.g. *ecdsa.PublicKey)
NoURL == "nil"                    \* (*url.URL)(nil)
TargetURL == "/token_keys"
NoProc == 0                       \* the mutex is free
NoClaims == "nil"                 \* a nil map[string]interface{}
NoErr == "nil"                    \* a nil error

ErrNoPublicKey == "No public key"
ErrInvalidToken == "Invalid token"
ErrInvalidSignature == "Invalid signature"
ErrTokenExpired == "Token expired"
ErrInvalidAudience == "Invalid audience"
ErrNoTargetSet == "No target set"
ErrNoKeysFound == "No keys found"
\* errors made inside fetchPublicKey, not package variables
ErrTransport == "Get: transport error"
ErrStatus == "Failed to fetch public key: 500 Internal Server Error"
ErrDecode == "json: decode error"

RefreshErrors == {ErrNoTargetSet, ErrTransport, ErrStatus, ErrDecode, ErrNoKeysFound}

\* A compact token: malformed, or a payload signed by an RSA key.  exp is the
\* instant after which jwt.Claims.Validate rejects it: the clock starts at 1,
\* so a token of exp 1 expires at the first tick and one of exp MaxNow never.
Tokens ==
    {[wellformed |-> FALSE, signer |-> "K1", exp |-> 0, aud |-> {}]} \cup
    {[wellformed |-> TRUE, signer |-> k, exp |-> e, aud |-> {"a"}] :
        k \in RSAKeys, e \in {1, MaxNow}}

\* What WithAudience may have configured (order is irrelevant to notarize).
AudienceConfigs == {{}, {"a"}}

\* The documents the key endpoint may serve: lists of at most MaxDocLen keys.
RECURSIVE SeqsUpTo(_, _)
SeqsUpTo(S, n) ==
    IF n = 0 THEN {<<>>}
    ELSE LET shorter == SeqsUpTo(S, n - 1)
         IN shorter \cup {Append(s, x) : s \in {t \in shorter : Len(t) = n - 1}, x \in S}

KeyDocs == SeqsUpTo(RSAKeys \cup OtherKeys, MaxDocLen)

\* What one GET of the endpoint may produce.
Responses ==
    {[kind |-> k, keys |-> <<>>] : k \in {"transport", "status", "decode"}} \cup
    {[kind |-> "ok", keys |-> d] : d \in KeyDocs}

VARIABLES
    PublicKey,   \* notary.PublicKey, the cached key
    URL,         \* notary.URL
    Audience,    \* notary.Audience
    mutex,       \* notary.Mutex: NoProc or the goroutine holding it
    now,         \* the clock behind time.Now()
    requests,    \* GETs the key endpoint has received
    pc,          \* where each goroutine is
    calls,       \* Notarize calls started so far
    token,       \* the argument of the current call
    k1,          \* the key the nil check of notarize read (line 123)
    raw, err,    \* what the current call returned
    \* history of the current call, kept for the properties
    attempts,    \* runs of notarize started
    first,       \* error of the first run of notarize
    retryErr,    \* error of the second run of notarize
    readKey,     \* key the last verification read (line 135)
    readHolder,  \* holders of the mutex at the reads of the current call
    refreshes,   \* calls of refreshPublicKey
    fetches,     \* GETs issued
    refreshErr,  \* what refreshPublicKey returned
    fetched,     \* key fetchPublicKey returned
    respKind,    \* what the endpoint answered: an error kind, "empty" or "keys"
    listed,      \* whether the endpoint's document lists the token's signing key
    keyAtLock,   \* PublicKey when the refresh took the mutex
    \* history of the notary
    initKey,     \* PublicKey after NewNotary
    lastOk,      \* key fetched by the successful refresh that completed last
    after,       \* per goroutine: whose calls had returned when its call began
    \* the handler of unnamed/part_000 (specification HandlerSpec)
    h,           \* the handler the options built
    req,         \* the headers of the request being served
    ctx,         \* the values of the request's context
    ctx0,        \* the context the request arrived with
    status,      \* what WriteHeader was given, 0 while nothing is written
    hpc,         \* where ServeHTTP is
    claims,      \* the claims Serve holds (line 188)
    authErr,     \* the error Authorize returned
    authCalls,   \* calls of h.Authorizer.Authorize
    handled,     \* the contexts h.Handler.ServeHTTP was called with
    logged,      \* the errors given to h.Logger.Error
    trace,       \* the steps of ServeHTTP taken for the request
    \* the bearer authorizer of authorizer.go (specification AuthorizerSpec)
    auth,        \* the authorizer the options built
    areq,        \* the values of the request's Authorization header
    actx,        \* the values of the request's context
    actx0,       \* the context the request arrived with
    apc,         \* where Authorize is
    notarized,   \* the arguments Notary.Notarize was called with
    nret,        \* what Notary.Notarize returned
    aret         \* the error Authorize returned

noteVars == <<PublicKey, URL, Audience, mutex, now, requests>>
procVars == <<pc, calls, token, k1, raw, err>>
callHist == <<attempts, first, retryErr, readKey, readHolder, refreshes, fetches,
              refreshErr, fetched, respKind, listed, keyAtLock>>
noteHist == <<initKey, lastOk>>
notaryVars == <<noteVars, procVars, callHist, noteHist, after>>
handlerVars == <<h, req, ctx, ctx0, status, hpc, claims, authErr, authCalls, handled,
                 logged, trace>>
authorizerVars == <<auth, areq, actx, actx0, apc, notarized, nret, aret>>
vars == <<notaryVars, handlerVars, authorizerVars>>

NoneYet == "none"

\* While the notary is examined no handler is serving.
NoHandler ==
    /\ h = NoneYet /\ req = NoneYet /\ ctx = NoneYet /\ ctx0 = NoneYet
    /\ status = 0 /\ hpc = NoneYet /\ claims = NoneYet /\ authErr = NoneYet
    /\ authCalls = 0 /\ handled = <<>> /\ logged = <<>> /\ trace = <<>>

\* While the notary or the handler is examined no bearer authorizer is called.
NoAuthorizer ==
    /\ auth = NoneYet /\ areq = <<>> /\ actx = NoneYet /\ actx0 = NoneYet
    /\ apc = NoneYet /\ notarized = <<>> /\ nret = NoneYet /\ aret = NoneYet

\* ------------------------------------------------------------ NewNotary
Init ==
    /\ PublicKey \in {NoKey} \cup RSAKeys
    /\ URL \in {NoURL, TargetURL}
    /\ Audience \in AudienceConfigs
    /\ mutex = NoProc
    /\ now = 1
    /\ requests = 0
    /\ pc = [p \in Procs |-> "idle"]
    /\ calls = 0
    /\ token = [p \in Procs |-> CHOOSE t \in Tokens : ~t.wellformed]
    /\ k1 = [p \in Procs |-> NoKey]
    /\ raw = [p \in Procs |-> NoClaims]
    /\ err = [p \in Procs |-> NoErr]
    /\ attempts = [p \in Procs |-> 0]
    /\ first = [p \in Procs |-> NoneYet]
    /\ retryErr = [p \in Procs |-> NoneYet]
    /\ readKey = [p \in Procs |-> NoneYet]
    /\ readHolder = [p \in Procs |-> {}]
    /\ refreshes = [p \in Procs |-> 0]
    /\ fetches = [p \in Procs |-> 0]
    /\ refreshErr = [p \in Procs |-> NoneYet]
    /\ fetched = [p \in Procs |-> NoneYet]
    /\ respKind = [p \in Procs |-> NoneYet]
    /\ listed = [p \in Procs |-> FALSE]
    /\ keyAtLock = [p \in Procs |-> NoneYet]
    /\ initKey = PublicKey
    /\ lastOk = NoneYet
    /\ after = [p \in Procs |-> {}]
    /\ NoHandler
    /\ NoAuthorizer

\* ------------------------------------------------------------- notarize
\* parsed.Claims(key, ...): the signature verifies under the signer's key only.
Verifies(key, tok) == key = tok.signer

\* The claim map parsed.Claims decodes out of the token's payload.
Payload(tok) == [aud |-> tok.aud, exp |-> tok.exp]

\* claims.Validate(jwt.Expected{Time: t}): only the expiry is set in a token.
TimeValid(tok, t) == t <= tok.exp

Result(r, e) == [raw |-> r, err |-> e]

\* The loop of lines 143-147: some configured audience is in the token's list.
AudienceMatches_All(auds, tokAud) == \A aud \in auds : aud \in tokAud

AudienceMatches(auds, tokAud) == \E aud \in auds : aud \in tokAud

\* notarize with the audience loop run before claims.Validate.
notarize_AudienceFirst(key1, key2, tok, t, auds) ==
    IF key1 = NoKey THEN Result(NoClaims, ErrNoPublicKey)
    ELSE IF ~tok.wellformed THEN Result(NoClaims, ErrInvalidToken)
    ELSE IF ~Verifies(key2, tok) THEN Result(NoClaims, ErrInvalidSignature)
    ELSE IF ~AudienceMatches(auds, tok.aud) THEN Result(NoClaims, ErrInvalidAudience)
    ELSE IF ~TimeValid(tok, t) THEN Result(NoClaims, ErrTokenExpired)
    ELSE Result(Payload(tok), NoErr)

\* notarize, given the two reads it makes of self.PublicKey (the nil check and
\* the verification), the token, the time and the configured audiences.
notarize(key1, key2, tok, t, auds) ==
    IF key1 = NoKey THEN Result(NoClaims, ErrNoPublicKey)
    ELSE IF ~tok.wellformed THEN Result(NoClaims, ErrInvalidToken)
    ELSE IF ~Verifies(key2, tok) THEN Result(NoClaims, ErrInvalidSignature)
    ELSE IF ~TimeValid(tok, t) THEN Result(NoClaims, ErrTokenExpired)
    ELSE IF AudienceMatches(auds, tok.aud) THEN Result(Payload(tok), NoErr)
    ELSE Result(NoClaims, ErrInvalidAudience)

\* notarize reaches the read of line 135 only past the returns of lines 124
\* and 129.
ReadsKeyAgain(key1, tok) == key1 # NoKey /\ tok.wellformed

\* The switch of Notarize on the error of the first run (lines 110-111).
NeedsRefresh_EvenOnSuccess(e) == e \in {NoErr, ErrNoPublicKey, ErrInvalidSignature}

NeedsRefresh_AlsoExpired(e) == e \in {ErrNoPublicKey, ErrInvalidSignature, ErrTokenExpired}

NeedsRefresh(e) == e \in {ErrNoPublicKey, ErrInvalidSignature}

\* Only the run of line 108 goes through the switch; the run of line 115 is
\* returned as it is.  n is the number of runs started by the call.
FirstRun_EveryRun(n) == n >= 1

FirstRun(n) == n = 1

\* ------------------------------------------------------- fetchPublicKey
\* Lines 171-191 on one response: the key returned, the error returned, or a
\* panic of the type assertion on the first key of the document.
decodeResponse(resp) ==
    IF resp.kind = "transport" THEN [key |-> NoKey, err |-> ErrTransport, panic |-> FALSE]
    ELSE IF resp.kind = "status" THEN [key |-> NoKey, err |-> ErrStatus, panic |-> FALSE]
    ELSE IF resp.kind = "decode" THEN [key |-> NoKey, err |-> ErrDecode, panic |-> FALSE]
    ELSE IF Len(resp.keys) = 0 THEN [key |-> NoKey, err |-> ErrNoKeysFound, panic |-> FALSE]
    ELSE IF resp.keys[1] \in RSAKeys THEN [key |-> resp.keys[1], err |-> NoErr, panic |-> FALSE]
    ELSE [key |-> NoKey, err |-> NoErr, panic |-> TRUE]

\* Line 167: self.URL == nil.
TargetMissing_Never(u) == FALSE

TargetMissing(u) == u = NoURL

\* Line 157: err != nil, refreshPublicKey returns before the assignment.
RefreshFailed(e) == e # NoErr

\* Line 112: err != nil, Notarize returns the refresh error.
RefreshErrReturned_OnlyNoTarget(e) == e = ErrNoTargetSet

RefreshErrReturned(e) == e # NoErr

\* The keys listed in the document of a success response (data.Keys, line 182).
KeysOf(resp) == {resp.keys[i] : i \in 1..Len(resp.keys)}

\* What the endpoint answered, as the caller of Get sees it.
KindOf(resp) ==
    IF resp.kind # "ok" THEN resp.kind
    ELSE IF resp.keys = <<>> THEN "empty" ELSE "keys"

\* The guard of Lock: sync.Mutex admits one holder.
MutexFree_Always == TRUE

MutexFree == mutex = NoProc

\* The key refreshPublicKey leaves in self.PublicKey for a given outcome of
\* fetchPublicKey (lines 156-161).
KeyAfterRefresh_AlwaysStore(old, key, e) == key

KeyAfterRefresh_KeepOld(old, key, e) == old

KeyAfterRefresh(old, key, e) == IF RefreshFailed(e) THEN old ELSE key

\* ------------------------------------------------------------- the steps
\* A goroutine calls Notarize(t): line 106.
Call(p, t) ==
    /\ pc[p] \in {"idle", "done"}
    /\ calls < MaxCalls
    /\ calls' = calls + 1
    /\ token' = [token EXCEPT ![p] = t]
    /\ pc' = [pc EXCEPT ![p] = "check"]
    /\ k1' = [k1 EXCEPT ![p] = NoKey]
    /\ raw' = [raw EXCEPT ![p] = NoClaims]
    /\ err' = [err EXCEPT ![p] = NoErr]
    /\ attempts' = [attempts EXCEPT ![p] = 1]
    /\ first' = [first EXCEPT ![p] = NoneYet]
    /\ retryErr' = [retryErr EXCEPT ![p] = NoneYet]
    /\ readKey' = [readKey EXCEPT ![p] = NoneYet]
    /\ readHolder' = [readHolder EXCEPT ![p] = {}]
    /\ refreshes' = [refreshes EXCEPT ![p] = 0]
    /\ fetches' = [fetches EXCEPT ![p] = 0]
    /\ refreshErr' = [refreshErr EXCEPT ![p] = NoneYet]
    /\ fetched' = [fetched EXCEPT ![p] = NoneYet]
    /\ respKind' = [respKind EXCEPT ![p] = NoneYet]
    /\ listed' = [listed EXCEPT ![p] = FALSE]
    /\ keyAtLock' = [keyAtLock EXCEPT ![p] = NoneYet]
    /\ UNCHANGED <<noteVars, noteHist>>
    /\ after' = [q \in Procs |-> IF q = p THEN {o \in Procs \ {p} : pc[o] = "done"}
                                  ELSE after[q] \ {p}]
    /\ UNCHANGED <<handlerVars, authorizerVars>>

\* notarize, line 123: the nil check reads self.PublicKey, no lock taken.
NotarizeCheck(p) ==
    /\ pc[p] = "check"
    /\ k1' = [k1 EXCEPT ![p] = PublicKey]
    /\ readHolder' = [readHolder EXCEPT ![p] = @ \cup {mutex}]
    /\ pc' = [pc EXCEPT ![p] = "verify"]
    /\ UNCHANGED <<noteVars, calls, token, raw, err, attempts, first, retryErr, readKey,
                   refreshes, fetches, refreshErr, fetched, respKind, listed, keyAtLock, noteHist>>
    /\ UNCHANGED <<after, handlerVars, authorizerVars>>

\* notarize, lines 127-149: parse, then verify against self.PublicKey read
\* again (no lock taken), then time and audience; back in Notarize, the first
\* run's error goes through the switch (lines 110-118), the second run's
\* result is returned (line 115).
NotarizeVerify(p) ==
    /\ pc[p] = "verify"
    /\ LET res == notarize(k1[p], PublicKey, token[p], now, Audience)
       IN /\ readKey' = [readKey EXCEPT ![p] =
                            IF ReadsKeyAgain(k1[p], token[p]) THEN PublicKey ELSE @]
          /\ readHolder' = [readHolder EXCEPT ![p] =
                            IF ReadsKeyAgain(k1[p], token[p]) THEN @ \cup {mutex} ELSE @]
          /\ IF FirstRun(attempts[p])
             THEN /\ first' = [first EXCEPT ![p] = res.err]
                  /\ UNCHANGED retryErr
                  /\ IF NeedsRefresh(res.err)
                     THEN /\ pc' = [pc EXCEPT ![p] = "lock"]
                          /\ UNCHANGED <<raw, err>>
                     ELSE /\ pc' = [pc EXCEPT ![p] = "done"]
                          /\ raw' = [raw EXCEPT ![p] = res.raw]
                          /\ err' = [err EXCEPT ![p] = res.err]
             ELSE /\ retryErr' = [retryErr EXCEPT ![p] = res.err]
                  /\ UNCHANGED first
                  /\ pc' = [pc EXCEPT ![p] = "done"]
                  /\ raw' = [raw EXCEPT ![p] = res.raw]
                  /\ err' = [err EXCEPT ![p] = res.err]
    /\ UNCHANGED <<noteVars, calls, token, k1, attempts, refreshes, fetches, refreshErr,
                   fetched, respKind, listed, keyAtLock, noteHist>>
    /\ UNCHANGED <<after, handlerVars, authorizerVars>>

\* refreshPublicKey, line 153: self.Lock().
Lock(p) ==
    /\ pc[p] = "lock"
    /\ MutexFree
    /\ mutex' = p
    /\ refreshes' = [refreshes EXCEPT ![p] = @ + 1]
    /\ keyAtLock' = [keyAtLock EXCEPT ![p] = PublicKey]
    /\ pc' = [pc EXCEPT ![p] = "fetch"]
    /\ UNCHANGED <<PublicKey, URL, Audience, now, requests, calls, token, k1, raw, err,
                   attempts, first, retryErr, readKey, readHolder, fetches, refreshErr,
                   fetched, respKind, listed, noteHist>>
    /\ UNCHANGED <<after, handlerVars, authorizerVars>>

\* fetchPublicKey, lines 167-171: no target is an error, else the GET is sent.
FetchStart(p) ==
    /\ pc[p] = "fetch"
    /\ IF TargetMissing(URL)
       THEN /\ refreshErr' = [refreshErr EXCEPT ![p] = ErrNoTargetSet]
            /\ fetched' = [fetched EXCEPT ![p] = NoKey]
            /\ pc' = [pc EXCEPT ![p] = "store"]
            /\ UNCHANGED <<requests, fetches>>
       ELSE /\ requests' = requests + 1
            /\ fetches' = [fetches EXCEPT ![p] = @ + 1]
            /\ pc' = [pc EXCEPT ![p] = "await"]
            /\ UNCHANGED <<refreshErr, fetched>>
    /\ UNCHANGED <<PublicKey, URL, Audience, mutex, now, calls, token, k1, raw, err,
                   attempts, first, retryErr, readKey, readHolder, refreshes,
                   respKind, listed, keyAtLock, noteHist>>
    /\ UNCHANGED <<after, handlerVars, authorizerVars>>

\* fetchPublicKey, lines 171-191: the response arrives and is decoded.
FetchReturn(p, resp) ==
    /\ pc[p] = "await"
    /\ LET got == decodeResponse(resp)
       IN IF got.panic
          THEN /\ pc' = [pc EXCEPT ![p] = "panicking"]
               /\ UNCHANGED <<refreshErr, fetched>>
          ELSE /\ refreshErr' = [refreshErr EXCEPT ![p] = got.err]
               /\ fetched' = [fetched EXCEPT ![p] = got.key]
               /\ pc' = [pc EXCEPT ![p] = "store"]
    /\ respKind' = [respKind EXCEPT ![p] = KindOf(resp)]
    /\ listed' = [listed EXCEPT ![p] = token[p].signer \in KeysOf(resp)]
    /\ UNCHANGED <<noteVars, calls, token, k1, raw, err, attempts, first, retryErr,
                   readKey, readHolder, refreshes, fetches, keyAtLock, initKey, lastOk>>
    /\ UNCHANGED <<after, handlerVars, authorizerVars>>

\* refreshPublicKey, lines 156-162: on an error of fetchPublicKey nothing is
\* stored, else the fetched key replaces the cached one.
Store(p) ==
    /\ pc[p] = "store"
    /\ PublicKey' = KeyAfterRefresh(PublicKey, fetched[p], refreshErr[p])
    /\ pc' = [pc EXCEPT ![p] = "unlock"]
    /\ UNCHANGED <<URL, Audience, mutex, now, requests, calls, token, k1, raw, err,
                   callHist, noteHist>>
    /\ UNCHANGED <<after, handlerVars, authorizerVars>>

\* refreshPublicKey returns: the deferred self.Unlock() (line 154), then
\* Notarize returns the refresh error (line 113) or runs notarize again
\* (line 115).
Unlock(p) ==
    /\ pc[p] = "unlock"
    /\ mutex' = NoProc
    /\ IF RefreshErrReturned(refreshErr[p])
       THEN /\ pc' = [pc EXCEPT ![p] = "done"]
            /\ raw' = [raw EXCEPT ![p] = NoClaims]
            /\ err' = [err EXCEPT ![p] = refreshErr[p]]
            /\ UNCHANGED attempts
       ELSE /\ pc' = [pc EXCEPT ![p] = "check"]
            /\ attempts' = [attempts EXCEPT ![p] = @ + 1]
            /\ UNCHANGED <<raw, err>>
    /\ lastOk' = IF refreshErr[p] = NoErr THEN fetched[p] ELSE lastOk
    /\ UNCHANGED <<PublicKey, URL, Audience, now, requests, calls, token, k1, first,
                   retryErr, readKey, readHolder, refreshes, fetches, refreshErr, fetched,
                   respKind, listed, keyAtLock, initKey>>
    /\ UNCHANGED <<after, handlerVars, authorizerVars>>

\* The type assertion of line 191 panicked: the deferred Unlock runs and the
\* panic leaves Notarize without a result.
PanicUnwind(p) ==
    /\ pc[p] = "panicking"
    /\ mutex' = NoProc
    /\ pc' = [pc EXCEPT ![p] = "panicked"]
    /\ UNCHANGED <<PublicKey, URL, Audience, now, requests, calls, token, k1, raw, err,
                   callHist, noteHist>>
    /\ UNCHANGED <<after, handlerVars, authorizerVars>>

\* Time passes.
Tick ==
    /\ now < MaxNow
    /\ now' = now + 1
    /\ UNCHANGED <<PublicKey, URL, Audience, mutex, requests, procVars, callHist, noteHist>>
    /\ UNCHANGED <<after, handlerVars, authorizerVars>>

Next ==
    \/ \E p \in Procs, t \in Tokens : Call(p, t)
    \/ \E p \in Procs : NotarizeCheck(p)
    \/ \E p \in Procs : NotarizeVerify(p)
    \/ \E p \in Procs : Lock(p)
    \/ \E p \in Procs : FetchStart(p)
    \/ \E p \in Procs, resp \in Responses : FetchReturn(p, resp)
    \/ \E p \in Procs : Store(p)
    \/ \E p \in Procs : Unlock(p)
    \/ \E p \in Procs : PanicUnwind(p)
    \/ Tick

Spec == Init /\ [][Next]_vars

\* ================================================================ claims
Returned(p) == pc[p] = "done"
Refreshable == {ErrNoPublicKey, ErrInvalidSignature}
Immediate == {ErrInvalidToken, ErrTokenExpired, ErrInvalidAudience}
InRefresh == {"fetch", "await", "store", "unlock", "panicking"}

\* C1 as stated: a returned Notarize call has made a refresh followed by
\* exactly one retry if and only if its first run failed with NoPublicKey or
\* InvalidSignature; InvalidToken, TokenExpired and InvalidAudience are
\* returned at once with no fetch; never more than one fetch per call.
C1_AsStated ==
    \A p \in Procs :
        /\ fetches[p] <= 1
        /\ Returned(p) =>
            /\ (refreshes[p] = 1 /\ attempts[p] = 2) <=> first[p] \in Refreshable
            /\ first[p] \in Immediate =>
                 err[p] = first[p] /\ fetches[p] = 0

\* C1 as amended: a Notarize call makes a refresh if and only if its first run
\* failed with NoPublicKey or InvalidSignature, and exactly one retry if and
\* only if that refresh succeeded (a failed refresh is returned without a
\* retry); InvalidToken, TokenExpired and InvalidAudience are returned at once
\* with no refresh and no fetch; never more than one refresh, one retry or one
\* fetch per call.
C1_RefreshThenOneRetry ==
    \A p \in Procs :
        /\ fetches[p] <= 1 /\ refreshes[p] <= 1 /\ attempts[p] <= 2
        /\ Returned(p) =>
            /\ refreshes[p] = 1 <=> first[p] \in Refreshable
            /\ attempts[p] = 2 <=> (first[p] \in Refreshable /\ refreshErr[p] = NoErr)
            /\ first[p] \in Immediate =>
                 /\ err[p] = first[p] /\ raw[p] = NoClaims
                 /\ fetches[p] = 0 /\ refreshes[p] = 0 /\ attempts[p] = 1
            /\ first[p] = NoErr => refreshes[p] = 0 /\ fetches[p] = 0 /\ err[p] = NoErr

C1_Witness ==
    \E p \in Procs :
        /\ Returned(p) /\ first[p] = ErrInvalidSignature
        /\ refreshes[p] = 1 /\ fetches[p] = 1 /\ attempts[p] = 2 /\ err[p] = NoErr

\* C2: when the first run failed with InvalidSignature, the refresh succeeded
\* and the key the retry verified against (the refreshed cached key) still
\* does not verify the token, Notarize has returned InvalidSignature after
\* exactly one refresh and one fetch: the retry's error starts no second
\* refresh.
C2_RetryFailureNotRefreshed ==
    \A p \in Procs :
        ( /\ first[p] = ErrInvalidSignature
          /\ attempts[p] >= 2 /\ pc[p] \notin {"check", "verify"}
          /\ ~Verifies(readKey[p], token[p]) )
        => /\ Returned(p)
           /\ err[p] = ErrInvalidSignature /\ raw[p] = NoClaims
           /\ retryErr[p] = ErrInvalidSignature
           /\ refreshes[p] = 1 /\ fetches[p] = 1 /\ attempts[p] = 2

C2_Witness ==
    \E p \in Procs :
        /\ Returned(p) /\ first[p] = ErrInvalidSignature /\ attempts[p] = 2
        /\ refreshErr[p] = NoErr /\ fetched[p] # token[p].signer
        /\ readKey[p] = fetched[p] /\ err[p] = ErrInvalidSignature

\* C3: when the first run failed with NoPublicKey or InvalidSignature and the
\* refresh failed (transport error, non-200, decode failure, empty key list,
\* no target), Notarize returns that refresh error and nil claims, never
\* InvalidSignature or NoPublicKey, and the retry is not run.
C3_RefreshErrorReturned ==
    \A p \in Procs :
        /\ (pc[p] \in {"store", "unlock"} /\ respKind[p] \in {"transport", "status", "decode", "empty"})
             => refreshErr[p] \in RefreshErrors
        /\ (pc[p] \in {"store", "unlock"} /\ URL = NoURL) => refreshErr[p] = ErrNoTargetSet
        /\ (pc[p] \notin InRefresh /\ pc[p] # "lock" /\ refreshErr[p] \in RefreshErrors) =>
             /\ Returned(p)
             /\ first[p] \in Refreshable
             /\ err[p] = refreshErr[p] /\ err[p] \notin Refreshable
             /\ raw[p] = NoClaims
             /\ attempts[p] = 1 /\ retryErr[p] = NoneYet

C3_Witness ==
    \E p, q \in Procs :
        /\ p # q
        /\ Returned(p) /\ first[p] = ErrInvalidSignature /\ err[p] = ErrStatus
        /\ Returned(q) /\ first[q] = ErrInvalidSignature /\ err[q] = ErrNoKeysFound
        /\ attempts[p] = 1 /\ attempts[q] = 1

\* C4: a failed refresh leaves the cached key as it was when the refresh took
\* the lock; the key is replaced only by the first key of a success response
\* with a non-empty key list; an empty list is reported as NoKeysFound.
C4_FailedRefreshKeepsKey ==
    \A p \in Procs :
        /\ (pc[p] \in InRefresh /\ PublicKey # keyAtLock[p]) =>
             /\ pc[p] = "unlock" /\ respKind[p] = "keys"
             /\ refreshErr[p] = NoErr /\ PublicKey = fetched[p]
        /\ (pc[p] = "unlock" /\ refreshErr[p] # NoErr) => PublicKey = keyAtLock[p]
        /\ (pc[p] = "unlock" /\ respKind[p] = "empty") => refreshErr[p] = ErrNoKeysFound
        /\ (pc[p] = "unlock" /\ respKind[p] \in {"transport", "status", "decode", NoneYet})
             => refreshErr[p] # NoErr

C4_Witness ==
    \E p \in Procs :
        /\ pc[p] = "unlock" /\ respKind[p] = "empty" /\ refreshErr[p] = ErrNoKeysFound
        /\ keyAtLock[p] \in RSAKeys /\ PublicKey = keyAtLock[p]

\* C5 as stated: no validation reads the cached key while a refresh is in
\* flight, i.e. every read of PublicKey by notarize is made with the mutex
\* free of any refreshing goroutine.
C5_NoReadDuringRefresh ==
    \A p \in Procs : readHolder[p] \subseteq {NoProc}

\* C6: refreshes are serialized by the mutex: at most one goroutine is inside
\* refreshPublicKey (so at most one between its fetch and its store), and it
\* is the holder of the mutex.
C6_RefreshesSerialized ==
    \A p, q \in Procs :
        /\ pc[p] \in InRefresh => mutex = p
        /\ (p # q /\ pc[p] \in InRefresh) => pc[q] \notin InRefresh

C6_Witness ==
    \E p, q \in Procs : p # q /\ pc[p] = "await" /\ pc[q] = "lock"

\* C7: whenever no refresh is running, in particular after all calls have
\* finished, the cached key is the key fetched by the successful refresh that
\* completed last (the constructor's key if none succeeded); a failed refresh
\* does not change it.
C7_LastSuccessfulRefreshWins ==
    mutex = NoProc =>
        PublicKey = IF lastOk = NoneYet THEN initKey ELSE lastOk

C7_Witness ==
    \E p, q \in Procs :
        /\ p # q /\ Returned(p) /\ Returned(q)
        /\ refreshErr[p] = NoErr /\ refreshErr[q] = NoErr
        /\ fetched[p] # fetched[q]
        /\ q \in readHolder[p]
        /\ lastOk = fetched[q] /\ PublicKey = fetched[q]

\* C8: the cached key is always absent, the constructor's key or the key of a
\* successful fetch (a whole RSA key); it changes only in the store of a
\* refresh holding the mutex, to the key that refresh fetched from a non-empty
\* document; once present it is never absent again.
C8_KeyShape ==
    /\ PublicKey \in {NoKey} \cup RSAKeys
    /\ \/ PublicKey = initKey
       \/ PublicKey = lastOk
       \/ \E p \in Procs : mutex = p /\ refreshErr[p] = NoErr /\ PublicKey = fetched[p]
    /\ PublicKey = NoKey => initKey = NoKey /\ lastOk = NoneYet

C8_KeyStep ==
    /\ PublicKey # NoKey => PublicKey' # NoKey
    /\ PublicKey' # PublicKey =>
         \E p \in Procs :
             /\ mutex = p /\ pc[p] = "store" /\ respKind[p] = "keys"
             /\ PublicKey' = fetched[p] /\ PublicKey' \in RSAKeys

C8_WholesaleReplacement == [](C8_KeyShape) /\ [][C8_KeyStep]_vars

C8_Witness ==
    /\ initKey \in RSAKeys /\ lastOk \in RSAKeys /\ lastOk # initKey
    /\ PublicKey = lastOk /\ mutex = NoProc

\* C9: refresh is reactive: the endpoint receives a GET only from a goroutine
\* inside a Notarize call whose first (and so far only) run of notarize has
\* just failed with NoPublicKey or InvalidSignature; none at construction,
\* none after a successful validation.
C9_FetchState ==
    /\ calls = 0 => requests = 0
    /\ requests <= calls
    /\ \A p \in Procs :
         /\ pc[p] \in InRefresh \cup {"lock"} =>
              first[p] \in Refreshable /\ attempts[p] = 1
         /\ fetches[p] > 0 => first[p] \in Refreshable
         /\ (Returned(p) /\ first[p] = NoErr) => fetches[p] = 0

C9_FetchStep ==
    requests' # requests =>
        /\ requests' = requests + 1
        /\ \E p \in Procs :
             /\ pc[p] = "fetch" /\ mutex = p
             /\ first[p] \in Refreshable /\ attempts[p] = 1 /\ fetches[p] = 0
             /\ fetches'[p] = 1

C9_RefreshIsReactive == [](C9_FetchState) /\ [][C9_FetchStep]_vars

C9_Witness ==
    \E p \in Procs : pc[p] = "await" /\ first[p] = ErrNoPublicKey /\ requests = 2

\* C10: with no target configured a refresh fails with NoTargetSet and issues
\* no fetch; Notarize returns that error without retrying; the cached key
\* stays what it was.
C10_NoTarget ==
    URL = NoURL =>
        /\ requests = 0
        /\ PublicKey = initKey
        /\ \A p \in Procs :
             /\ fetches[p] = 0
             /\ pc[p] \notin {"await", "panicking", "panicked"}
             /\ (Returned(p) /\ first[p] \in Refreshable) =>
                  /\ err[p] = ErrNoTargetSet /\ raw[p] = NoClaims
                  /\ refreshes[p] = 1 /\ attempts[p] = 1 /\ retryErr[p] = NoneYet

C10_Witness ==
    /\ URL = NoURL
    /\ \E p \in Procs :
         /\ Returned(p) /\ first[p] = ErrInvalidSignature /\ err[p] = ErrNoTargetSet
         /\ PublicKey = initKey /\ requests = 0

\* The token of p's call is valid but for the key: well formed, not expired
\* at the present instant (so at no earlier one) and of a configured audience.
OtherwiseValid(p) ==
    /\ token[p].wellformed
    /\ now <= token[p].exp
    /\ Audience \cap token[p].aud # {}

\* The cached key is the one NewNotary left and no refresh has completed.
KeyUntouched == PublicKey = initKey /\ lastOk = NoneYet

\* C13: while the cached key is the one the notary was built with and it
\* verifies a token that is otherwise valid, a Notarize call of that token
\* never enters refreshPublicKey, issues no fetch and returns the token's
\* claim map with no error; so two successive calls of the token return
\* identical claim maps and leave the cached key as it was.
C13_RepeatIsStable ==
    /\ \A p \in Procs :
          (/\ pc[p] # "idle"
           /\ OtherwiseValid(p)
           /\ initKey = token[p].signer
           /\ KeyUntouched)
          => /\ pc[p] \in {"check", "verify", "done"}
             /\ refreshes[p] = 0 /\ fetches[p] = 0
             /\ pc[p] = "done"
                  => (err[p] = NoErr
                      /\ raw[p] = [aud |-> token[p].aud, exp |-> token[p].exp])
    /\ \A p \in Procs : \A q \in Procs \ {p} :
          (/\ p \in after[q]
           /\ pc[q] = "done"
           /\ token[q] = token[p]
           /\ OtherwiseValid(p)
           /\ initKey = token[p].signer
           /\ KeyUntouched)
          => /\ err[p] = NoErr /\ err[q] = NoErr
             /\ raw[q] = raw[p]
             /\ fetches[p] = 0 /\ fetches[q] = 0

\* A call returned, then another goroutine called Notarize with the same
\* token; both returned the same claims and the key was never replaced.
C13_Witness ==
    \E p \in Procs : \E q \in Procs \ {p} :
        /\ p \in after[q]
        /\ pc[p] = "done" /\ pc[q] = "done"
        /\ token[q] = token[p]
        /\ err[p] = NoErr /\ err[q] = NoErr
        /\ raw[q] = raw[p]
        /\ fetches[p] = 0 /\ fetches[q] = 0
        /\ requests = 0
        /\ KeyUntouched

\* p's call found the cached key absent or not verifying, and its one fetch,
\* the only GET the endpoint has received, was answered with the signing key.
ServedSigningKey(p) ==
    /\ pc[p] = "done"
    /\ first[p] \in {ErrNoPublicKey, ErrInvalidSignature}
    /\ respKind[p] = "keys"
    /\ fetched[p] = token[p].signer
    /\ requests = fetches[p]
    /\ OtherwiseValid(p)

\* C14: when the first run fails with ErrNoPublicKey or ErrInvalidSignature
\* on an otherwise valid token and the fetch yields the signing key, Notarize
\* returns the token's claims after exactly one fetch and the fetched key is
\* the cached key; a following call of the same token does not enter
\* refreshPublicKey, issues no fetch and returns the same claims.
C14_FetchedKeyServes ==
    /\ \A p \in Procs :
          ServedSigningKey(p)
          => /\ err[p] = NoErr
             /\ raw[p] = [aud |-> token[p].aud, exp |-> token[p].exp]
             /\ fetches[p] = 1 /\ refreshes[p] = 1
             /\ PublicKey = fetched[p]
    /\ \A p \in Procs : \A q \in Procs \ {p} :
          (ServedSigningKey(p) /\ p \in after[q] /\ token[q] = token[p])
          => /\ pc[q] \in {"check", "verify", "done"}
             /\ refreshes[q] = 0 /\ fetches[q] = 0
             /\ pc[q] = "done" => (err[q] = NoErr /\ raw[q] = raw[p])

\* A call fetched the signing key and returned the claims; a call of the same
\* token begun after it returned succeeded with no fetch of its own.
C14_Witness ==
    \E p \in Procs : \E q \in Procs \ {p} :
        /\ ServedSigningKey(p)
        /\ p \in after[q]
        /\ token[q] = token[p]
        /\ pc[q] = "done"
        /\ err[p] = NoErr /\ err[q] = NoErr
        /\ fetches[p] = 1 /\ fetches[q] = 0
        /\ requests = 1
        /\ PublicKey = token[p].signer

\* ===========================================================================
\* Part 2 (specification ValidateSpec): notarize as a function of its inputs.
\* The notary is built with any cached key and any audience list, the clock
\* stands at any instant, and notarize is applied once by each goroutine to
\* one token drawn from a set in which the audience lists vary.
\* ===========================================================================
AudNames == {"a", "b"}

AnyTokens ==
    {[wellformed |-> FALSE, signer |-> "K1", exp |-> 0, aud |-> {}]} \cup
    {[wellformed |-> TRUE, signer |-> k, exp |-> e, aud |-> A] :
        k \in RSAKeys, e \in {1, MaxNow}, A \in SUBSET AudNames}

ValidateInit ==
    /\ PublicKey \in {NoKey} \cup RSAKeys
    /\ URL = NoURL
    /\ Audience \in SUBSET AudNames
    /\ mutex = NoProc
    /\ now \in 1..MaxNow
    /\ requests = 0
    /\ pc = [p \in Procs |-> "idle"]
    /\ calls = 0
    /\ \E t \in AnyTokens : token = [p \in Procs |-> t]
    /\ k1 = [p \in Procs |-> NoKey]
    /\ raw = [p \in Procs |-> NoClaims]
    /\ err = [p \in Procs |-> NoErr]
    /\ attempts = [p \in Procs |-> 0]
    /\ first = [p \in Procs |-> NoneYet]
    /\ retryErr = [p \in Procs |-> NoneYet]
    /\ readKey = [p \in Procs |-> NoneYet]
    /\ readHolder = [p \in Procs |-> {}]
    /\ refreshes = [p \in Procs |-> 0]
    /\ fetches = [p \in Procs |-> 0]
    /\ refreshErr = [p \in Procs |-> NoneYet]
    /\ fetched = [p \in Procs |-> NoneYet]
    /\ respKind = [p \in Procs |-> NoneYet]
    /\ listed = [p \in Procs |-> FALSE]
    /\ keyAtLock = [p \in Procs |-> NoneYet]
    /\ initKey = PublicKey
    /\ lastOk = NoneYet
    /\ after = [p \in Procs |-> {}]
    /\ NoHandler
    /\ NoAuthorizer

\* One run of notarize (lines 121-150), nothing else touching the notary.
Validate(p) ==
    /\ pc[p] = "idle"
    /\ LET res == notarize(PublicKey, PublicKey, token[p], now, Audience)
       IN /\ raw' = [raw EXCEPT ![p] = res.raw]
          /\ err' = [err EXCEPT ![p] = res.err]
    /\ k1' = [k1 EXCEPT ![p] = PublicKey]
    /\ attempts' = [attempts EXCEPT ![p] = 1]
    /\ pc' = [pc EXCEPT ![p] = "done"]
    /\ UNCHANGED <<noteVars, calls, token, first, retryErr, readKey, readHolder, refreshes,
                   fetches, refreshErr, fetched, respKind, listed, keyAtLock, noteHist, after,
                   handlerVars, authorizerVars>>

ValidateNext == \E p \in Procs : Validate(p)

ValidateSpec == ValidateInit /\ [][ValidateNext]_vars

\* C11: for a token whose signature verifies under the cached key and whose
\* expiry has not passed, notarize returns the decoded claim map and no error
\* exactly when some configured audience is in the token's audience list; when
\* none is (in particular when no audience is configured) it returns
\* ErrInvalidAudience and no claims.
C11_AudienceDecides ==
    \A p \in Procs :
        (/\ pc[p] = "done"
         /\ PublicKey # NoKey
         /\ token[p].wellformed
         /\ PublicKey = token[p].signer
         /\ now <= token[p].exp)
        => /\ (err[p] = NoErr /\ raw[p] = [aud |-> token[p].aud, exp |-> token[p].exp])
                <=> (Audience \cap token[p].aud # {})
           /\ (Audience \cap token[p].aud = {})
                => (err[p] = ErrInvalidAudience /\ raw[p] = NoClaims)
           /\ Audience = {} => err[p] = ErrInvalidAudience

\* Audiences a and b are configured, the token lists b alone and is accepted.
C11_Witness ==
    \E p \in Procs :
        /\ pc[p] = "done"
        /\ Audience = {"a", "b"}
        /\ token[p].wellformed /\ token[p].aud = {"b"}
        /\ err[p] = NoErr /\ raw[p] = [aud |-> {"b"}, exp |-> token[p].exp]

\* The first check that fails, in the order key, form, signature, time,
\* audience, written out from the inputs.
FirstFailure(key, tok, t, auds) ==
    CASE key = NoKey -> ErrNoPublicKey
      [] key # NoKey /\ ~tok.wellformed -> ErrInvalidToken
      [] key # NoKey /\ tok.wellformed /\ key # tok.signer -> ErrInvalidSignature
      [] key # NoKey /\ tok.wellformed /\ key = tok.signer /\ t > tok.exp -> ErrTokenExpired
      [] key # NoKey /\ tok.wellformed /\ key = tok.signer /\ t <= tok.exp
            /\ auds \cap tok.aud = {} -> ErrInvalidAudience
      [] OTHER -> NoErr

\* C12: one run of notarize reports the first failing check in the order
\* key present, well formed, signature, time, audience, and no claims with it.
C12_FirstFailingCheck ==
    \A p \in Procs :
        pc[p] = "done"
        => /\ err[p] = FirstFailure(PublicKey, token[p], now, Audience)
           /\ err[p] # NoErr => raw[p] = NoClaims

\* An expired token whose audience list also misses every configured audience
\* is reported expired.
C12_Witness ==
    \E p \in Procs :
        /\ pc[p] = "done"
        /\ token[p].wellformed /\ PublicKey = token[p].signer
        /\ now > token[p].exp
        /\ Audience # {} /\ Audience \cap token[p].aud = {}
        /\ err[p] = ErrTokenExpired

\* ===========================================================================
\* Part 3 (specification HandlerSpec): the handler of unnamed/part_000.
\* NewHandler builds h from its options; each request goes through ServeHTTP
\* (the API-key gate) and Serve (basic credentials, static tokens, the
\* Authorizer, the required claims, the closing test), one step per loop or
\* call.  The Authorizer is any implementation of the interface: its result
\* is drawn at the call.  What the request met is recorded for the properties.
\* ===========================================================================
StatusUnauthorized == 401         \* http.StatusUnauthorized
NotWritten == 0                   \* WriteHeader was not called
NilValue == "<nil>"               \* the nil value of type any
\* Values of dynamic type []interface{}, what json.Unmarshal makes of an
\* array and what WithAuthorizedClaim(key, []any{...}) configures.  The type
\* is not comparable: == on two interface values holding it panics.
ListValues == {"[admin]"}

\* map[string]any: the nil map, or a set of <<key, value>> entries.
NilMap == [isNil |-> TRUE, kv |-> {}]
Map(entries) == [isNil |-> FALSE, kv |-> entries]

\* m[k]: the value of the entry, nil when there is none or the map is nil.
Index(m, k) ==
    IF \E e \in m.kv : e[1] = k THEN (CHOOSE e \in m.kv : e[1] = k)[2] ELSE NilValue

\* strings.ToLower on the scheme words used below.
ToLower(word) ==
    CASE word = "Bearer" -> "bearer"
      [] word = "BEARER" -> "bearer"
      [] word = "Basic" -> "basic"
      [] OTHER -> word

\* base64.StdEncoding.DecodeString on the values used below: the bytes, or an
\* error for what is not base64.
DecodeString(value) ==
    CASE value = "eyJjbGFpbSI6InZhbHVlIn0K" -> [ok |-> TRUE, bytes |-> "{claim:value}"]
      [] value = "eyJrZXkiOiJ2YWx1ZSJ9" -> [ok |-> TRUE, bytes |-> "{key:value}"]
      [] value = "bm90anNvbg==" -> [ok |-> TRUE, bytes |-> "notjson"]
      [] value = "dXNlcjpwYXNz" -> [ok |-> TRUE, bytes |-> "user:pass"]
      [] value = "dXNlcjp3cm9uZw==" -> [ok |-> TRUE, bytes |-> "user:wrong"]
      [] OTHER -> [ok |-> FALSE, bytes |-> ""]

\* json.Unmarshal failing on every input, the map left nil.
Unmarshal_NeverDecodes(bytes) == [ok |-> FALSE, data |-> NilMap]

\* json.Unmarshal(decoded, &data) into a nil map[string]any.
Unmarshal(bytes) ==
    CASE bytes = "{claim:value}" -> [ok |-> TRUE, data |-> Map({<<"claim", "value">>})]
      [] bytes = "{key:value}" -> [ok |-> TRUE, data |-> Map({<<"key", "value">>})]
      [] OTHER -> [ok |-> FALSE, data |-> NilMap]

\* r.BasicAuth(): the header is "Basic " and the base64 of user:password.
BasicAuth(r) ==
    LET parts == r.Authorization
        creds == IF Len(parts) = 2 THEN DecodeString(parts[2]).bytes ELSE ""
    IN IF Len(parts) = 2 /\ ToLower(parts[1]) = "basic" /\ creds = "user:pass"
       THEN [user |-> "user", pass |-> "pass", ok |-> TRUE]
       ELSE IF Len(parts) = 2 /\ ToLower(parts[1]) = "basic" /\ creds = "user:wrong"
       THEN [user |-> "user", pass |-> "wrong", ok |-> TRUE]
       ELSE [user |-> "", pass |-> "", ok |-> FALSE]

\* BasicAuthCredential.Matches, lines 237-240.
BasicAuthCredentialMatches_Swapped(c, r) ==
    LET got == BasicAuth(r)
    IN got.ok /\ c.Username = got.pass /\ c.Password = got.user

BasicAuthCredentialMatches(c, r) ==
    LET got == BasicAuth(r)
    IN got.ok /\ c.Username = got.user /\ c.Password = got.pass

\* AuthorizedToken.Matches, lines 246-273.  The Authorization header is held
\* as the parts strings.Split(header, " ") gives, <<>> for no header.
AuthorizedTokenMatches_DecodedOnly(t, r) ==
    LET parts == r.Authorization
    IN IF parts = <<>> THEN [claims |-> NilMap, matches |-> FALSE]
       ELSE IF Len(parts) # 2 \/ ToLower(parts[1]) # "bearer"
       THEN [claims |-> NilMap, matches |-> FALSE]
       ELSE IF parts[2] # t THEN [claims |-> NilMap, matches |-> FALSE]
       ELSE IF ~DecodeString(parts[2]).ok THEN [claims |-> NilMap, matches |-> FALSE]
       ELSE IF ~Unmarshal(DecodeString(parts[2]).bytes).ok
       THEN [claims |-> NilMap, matches |-> FALSE]
       ELSE [claims |-> Unmarshal(DecodeString(parts[2]).bytes).data, matches |-> TRUE]

AuthorizedTokenMatches(t, r) ==
    LET parts == r.Authorization
    IN IF parts = <<>> THEN [claims |-> NilMap, matches |-> FALSE]
       ELSE IF Len(parts) # 2 \/ ToLower(parts[1]) # "bearer"
       THEN [claims |-> NilMap, matches |-> FALSE]
       ELSE IF parts[2] # t THEN [claims |-> NilMap, matches |-> FALSE]
       ELSE IF ~DecodeString(parts[2]).ok THEN [claims |-> NilMap, matches |-> TRUE]
       ELSE IF ~Unmarshal(DecodeString(parts[2]).bytes).ok
       THEN [claims |-> NilMap, matches |-> TRUE]
       ELSE [claims |-> Unmarshal(DecodeString(parts[2]).bytes).data, matches |-> TRUE]

\* AuthorizedClaim.Matches, lines 280-282.
AuthorizedClaimMatches_KeyOnly(c, data) == \E e \in data.kv : e[1] = c.Key

AuthorizedClaimMatches(c, data) == Index(data, c.Key) = c.Value

\* Line 281 again: claims[c.Key] == c.Value compares two interface values,
\* and panics when both hold a value of one uncomparable type.
AuthorizedClaimPanics(c, data) == Index(data, c.Key) \in ListValues /\ c.Value \in ListValues

\* The loop of lines 197-202 over the required claims in their order: the
\* first comparison that panics or matches ends it.
ClaimsLoop(cs, data) ==
    LET ends(i) == AuthorizedClaimPanics(cs[i], data) \/ AuthorizedClaimMatches(cs[i], data)
    IN IF \E i \in 1..Len(cs) : ends(i)
       THEN LET i == CHOOSE i \in 1..Len(cs) : ends(i) /\ \A j \in 1..(i - 1) : ~ends(j)
            IN IF AuthorizedClaimPanics(cs[i], data) THEN "panic" ELSE "match"
       ELSE "none"

\* ApiKey.Matches, lines 288-295.
ApiKeyMatches(k, r) == r.XApiKey # "" /\ r.XApiKey = k

\* updateContext setting only the keys whose claim the data holds.
updateContext_PresentOnly(c, mapping, data) ==
    IF data.isNil THEN c
    ELSE LET held == {m \in mapping : \E e \in data.kv : e[1] = m[2]}
         IN {e \in c : ~\E m \in held : m[1] = e[1]}
            \cup {<<m[1], Index(data, m[2])>> : m \in held}

\* updateContext lifting every claim into the context under its own name.
updateContext_EveryClaim(c, mapping, data) ==
    IF data.isNil THEN c
    ELSE {e \in c : ~\E d \in data.kv : d[1] = e[1]} \cup data.kv

\* updateContext, lines 216-231: the context after the call.  A context is
\* the set of its <<key, value>> pairs, the last WithValue of a key on top.
updateContext(c, mapping, data) ==
    IF data.isNil THEN c
    ELSE {e \in c : ~\E m \in mapping : m[1] = e[1]}
         \cup {<<m[1], Index(data, m[2])>> : m \in mapping}

\* The gate of ServeHTTP, lines 156-166: Serve is reached.
GateOpen_Always(keys, r) == TRUE

GateOpen(keys, r) == keys = {} \/ \E k \in keys : ApiKeyMatches(k, r)

\* Line 189: err != nil, Serve answers 401 and returns.
AuthorizeFailed_OnlyExpired(e) == e = ErrTokenExpired

AuthorizeFailed(e) == e # NoErr

\* The closing test of Serve, lines 204-211.
DeniedAtEnd_Always(hd) == TRUE

\* The closing test denying as well whenever a claim is mapped into the context.
DeniedAtEnd_OrMapped(hd) ==
    \/ hd.BasicAuthCredentials # {} \/ hd.AuthorizedTokens # {} \/ hd.AuthorizedClaims # <<>>
    \/ hd.ClaimMapping # {}

\* The closing test looking at the required claims alone.
DeniedAtEnd_ClaimsOnly(hd) == hd.AuthorizedClaims # <<>>

DeniedAtEnd(hd) ==
    hd.BasicAuthCredentials # {} \/ hd.AuthorizedTokens # {} \/ hd.AuthorizedClaims # <<>>

\* ------------------------------------------------- what may be configured
Handlers ==
    [ApiKeys : {{}, {"k1"}, {"k1", "k2"}},
     BasicAuthCredentials : {{}, {[Username |-> "user", Password |-> "pass"]}},
     AuthorizedTokens : {{}, {"token"}, {"token", "eyJjbGFpbSI6InZhbHVlIn0K"},
                         {"eyJrZXkiOiJ2YWx1ZSJ9", "bm90anNvbg=="}},
     AuthorizedClaims : {<<>>, <<[Key |-> "key", Value |-> "value"]>>,
                         <<[Key |-> "key", Value |-> "value"],
                           [Key |-> "claim", Value |-> NilValue]>>,
                         <<[Key |-> "key", Value |-> "value"],
                           [Key |-> "roles", Value |-> "[admin]"]>>,
                         <<[Key |-> "roles", Value |-> "[admin]"],
                           [Key |-> "key", Value |-> "value"]>>},
     Authorizer : {"noop", "custom"},
     ClaimMapping : {{}, {<<"key", "key">>}, {<<"key", "key">>, <<"who", "claim">>}}]

\* ------------------------------------------------------- what may arrive
Authorizations ==
    {<<>>,
     <<"Basic", "dXNlcjpwYXNz">>, <<"basic", "dXNlcjp3cm9uZw==">>,
     <<"bearer", "token">>, <<"Bearer", "eyJjbGFpbSI6InZhbHVlIn0K">>,
     <<"BEARER", "eyJrZXkiOiJ2YWx1ZSJ9">>, <<"bearer", "bm90anNvbg==">>,
     <<"Bearer", "jwt">>, <<"bearer", "token", "">>, <<"token", "token">>}

Requests == [XApiKey : {"", "k1", "k3"}, Authorization : Authorizations]

Contexts == {{}, {<<"key", "old">>, <<"trace", "t1">>}}

\* What an Authorizer may return: claims and an error, either nil.
AuthResults ==
    [claims : {NilMap, Map({}), Map({<<"key", "value">>}),
               Map({<<"not-key", "not-value">>}),
               Map({<<"key", "other">>, <<"claim", "value">>}),
               Map({<<"key", "value">>, <<"roles", "[admin]">>})},
     err : {NoErr}]
    \cup
    [claims : {NilMap, Map({<<"key", "value">>})},
     err : {ErrInvalidSignature, ErrTokenExpired}]

\* NoopAuthorizer(), the Authorizer NewHandler starts with (line 130): it
\* returns no error and an empty claim set, the nil map or a map of no entry.
NoopResults == [claims : {NilMap, Map({})}, err : {NoErr}]

\* What h.Authorizer.Authorize may return.
ResultsOf(authorizer) == IF authorizer = "noop" THEN NoopResults ELSE AuthResults

\* While the handler is examined the notary is not used.
NoNotary ==
    /\ PublicKey = NoKey /\ URL = NoURL /\ Audience = {} /\ mutex = NoProc
    /\ now = 1 /\ requests = 0 /\ calls = 0
    /\ pc = [p \in Procs |-> "idle"]
    /\ token = [p \in Procs |-> CHOOSE t \in Tokens : ~t.wellformed]
    /\ k1 = [p \in Procs |-> NoKey]
    /\ raw = [p \in Procs |-> NoClaims]
    /\ err = [p \in Procs |-> NoErr]
    /\ attempts = [p \in Procs |-> 0]
    /\ first = [p \in Procs |-> NoneYet]
    /\ retryErr = [p \in Procs |-> NoneYet]
    /\ readKey = [p \in Procs |-> NoneYet]
    /\ readHolder = [p \in Procs |-> {}]
    /\ refreshes = [p \in Procs |-> 0]
    /\ fetches = [p \in Procs |-> 0]
    /\ refreshErr = [p \in Procs |-> NoneYet]
    /\ fetched = [p \in Procs |-> NoneYet]
    /\ respKind = [p \in Procs |-> NoneYet]
    /\ listed = [p \in Procs |-> FALSE]
    /\ keyAtLock = [p \in Procs |-> NoneYet]
    /\ initKey = NoKey /\ lastOk = NoneYet
    /\ after = [p \in Procs |-> {}]

\* ------------------------------------------------------------ NewHandler
HandlerInit ==
    /\ NoNotary
    /\ NoAuthorizer
    /\ h \in Handlers
    /\ hpc = "idle"
    /\ req = [XApiKey |-> "", Authorization |-> <<>>]
    /\ ctx = {} /\ ctx0 = {}
    /\ status = NotWritten
    /\ claims = NilMap
    /\ authErr = NoErr
    /\ authCalls = 0
    /\ handled = <<>>
    /\ logged = <<>>
    /\ trace = <<>>

\* ------------------------------------------------------------- the steps
\* The server calls h.ServeHTTP(w, r), line 154.
Receive(r, c) ==
    /\ hpc = "idle"
    /\ req' = r
    /\ ctx' = c /\ ctx0' = c
    /\ status' = NotWritten
    /\ claims' = NilMap
    /\ authErr' = NoErr
    /\ authCalls' = 0
    /\ handled' = <<>>
    /\ logged' = <<>>
    /\ trace' = <<>>
    /\ hpc' = "gate"
    /\ UNCHANGED <<h, notaryVars, authorizerVars>>

\* ServeHTTP, lines 156-169: the API-key gate.
ServeHTTP ==
    /\ hpc = "gate"
    /\ trace' = Append(trace, "gate")
    /\ IF GateOpen(h.ApiKeys, req)
       THEN /\ hpc' = "basic"
            /\ UNCHANGED status
       ELSE /\ status' = StatusUnauthorized
            /\ hpc' = "returned"
    /\ UNCHANGED <<h, req, ctx, ctx0, claims, authErr, authCalls, handled, logged,
                   notaryVars, authorizerVars>>

\* Serve, lines 173-178: the basic credentials.
ServeBasic ==
    /\ hpc = "basic"
    /\ trace' = Append(trace, "basic")
    /\ IF \E cred \in h.BasicAuthCredentials : BasicAuthCredentialMatches(cred, req)
       THEN /\ handled' = Append(handled, ctx)
            /\ hpc' = "returned"
       ELSE /\ hpc' = "tokens"
            /\ UNCHANGED handled
    /\ UNCHANGED <<h, req, ctx, ctx0, status, claims, authErr, authCalls, logged,
                   notaryVars, authorizerVars>>

\* Serve, lines 180-186: the static tokens.  Only a token equal to the bearer
\* value matches, so every matching entry yields the same claims.
ServeTokens ==
    /\ hpc = "tokens"
    /\ trace' = Append(trace, "tokens")
    /\ IF \E t \in h.AuthorizedTokens : AuthorizedTokenMatches(t, req).matches
       THEN LET t == CHOOSE t \in h.AuthorizedTokens : AuthorizedTokenMatches(t, req).matches
                data == AuthorizedTokenMatches(t, req).claims
            IN /\ ctx' = updateContext(ctx, h.ClaimMapping, data)
               /\ handled' = Append(handled, ctx')
               /\ hpc' = "returned"
       ELSE /\ hpc' = "authorize"
            /\ UNCHANGED <<ctx, handled>>
    /\ UNCHANGED <<h, req, ctx0, status, claims, authErr, authCalls, logged, notaryVars, authorizerVars>>

\* Serve, lines 188-195: the Authorizer, its error or its claims.
ServeAuthorize(res) ==
    /\ hpc = "authorize"
    /\ res \in ResultsOf(h.Authorizer)
    /\ trace' = Append(trace, "authorize")
    /\ authCalls' = authCalls + 1
    /\ claims' = res.claims
    /\ authErr' = res.err
    /\ IF AuthorizeFailed(res.err)
       THEN /\ status' = StatusUnauthorized
            /\ logged' = Append(logged, res.err)
            /\ hpc' = "returned"
            /\ UNCHANGED ctx
       ELSE /\ ctx' = updateContext(ctx, h.ClaimMapping, res.claims)
            /\ hpc' = "claims"
            /\ UNCHANGED <<status, logged>>
    /\ UNCHANGED <<h, req, ctx0, handled, notaryVars, authorizerVars>>

\* Serve, lines 197-202: the required claims.  A panic of the comparison
\* leaves ServeHTTP with nothing written and the wrapped handler not called.
ServeClaims ==
    /\ hpc = "claims"
    /\ trace' = Append(trace, "claims")
    /\ LET end == ClaimsLoop(h.AuthorizedClaims, claims)
       IN IF end = "match"
          THEN /\ handled' = Append(handled, ctx)
               /\ hpc' = "returned"
          ELSE IF end = "panic"
          THEN /\ hpc' = "panicked"
               /\ UNCHANGED handled
          ELSE /\ hpc' = "final"
               /\ UNCHANGED handled
    /\ UNCHANGED <<h, req, ctx, ctx0, status, claims, authErr, authCalls, logged,
                   notaryVars, authorizerVars>>

\* Serve, lines 204-213: deny when anything static is configured, else serve.
ServeFinal ==
    /\ hpc = "final"
    /\ trace' = Append(trace, "final")
    /\ IF DeniedAtEnd(h)
       THEN /\ status' = StatusUnauthorized
            /\ UNCHANGED handled
       ELSE /\ handled' = Append(handled, ctx)
            /\ UNCHANGED status
    /\ hpc' = "returned"
    /\ UNCHANGED <<h, req, ctx, ctx0, claims, authErr, authCalls, logged, notaryVars, authorizerVars>>

\* The server is done with the request, ServeHTTP having returned or
\* panicked (net/http recovers the panic of a handler); w and r are dropped.
Finish ==
    /\ hpc \in {"returned", "panicked"}
    /\ hpc' = "idle"
    /\ req' = [XApiKey |-> "", Authorization |-> <<>>]
    /\ ctx' = {} /\ ctx0' = {}
    /\ status' = NotWritten
    /\ claims' = NilMap
    /\ authErr' = NoErr
    /\ authCalls' = 0
    /\ handled' = <<>>
    /\ logged' = <<>>
    /\ trace' = <<>>
    /\ UNCHANGED <<h, notaryVars, authorizerVars>>

HandlerNext ==
    \/ \E r \in Requests, c \in Contexts : Receive(r, c)
    \/ ServeHTTP
    \/ ServeBasic
    \/ ServeTokens
    \/ \E res \in AuthResults : ServeAuthorize(res)
    \/ ServeClaims
    \/ ServeFinal
    \/ Finish

HandlerSpec == HandlerInit /\ [][HandlerNext]_vars

\* ------------------------------------------------------- what is claimed
\* The request, read off its headers without the handler's own tests.
PassesGate == h.ApiKeys = {} \/ (req.XApiKey # "" /\ req.XApiKey \in h.ApiKeys)

BasicPair ==
    IF req.Authorization \in {<<"Basic", "dXNlcjpwYXNz">>, <<"basic", "dXNlcjpwYXNz">>}
    THEN {[Username |-> "user", Password |-> "pass"]}
    ELSE IF req.Authorization \in {<<"Basic", "dXNlcjp3cm9uZw==">>,
                                   <<"basic", "dXNlcjp3cm9uZw==">>}
    THEN {[Username |-> "user", Password |-> "wrong"]}
    ELSE {}

BearerValue ==
    IF Len(req.Authorization) = 2 /\ req.Authorization[1] \in {"bearer", "Bearer", "BEARER"}
    THEN {req.Authorization[2]}
    ELSE {}

BasicMatch == BasicPair \cap h.BasicAuthCredentials # {}
TokenMatch == BearerValue \cap h.AuthorizedTokens # {}

Served == hpc = "returned"
Forwarded == Len(handled) = 1
Denied == status = StatusUnauthorized /\ handled = <<>>

\* C15: with an API key configured, a request whose X-Api-Key header is
\* missing or is none of the configured values goes no further than the gate:
\* no basic credential or static token is looked at, the Authorizer and the
\* wrapped handler are not called, and the answer is 401; with no API key
\* configured every request goes on to the basic credentials.
C15_GateFirst ==
    /\ (hpc # "idle" /\ h.ApiKeys # {}
        /\ (req.XApiKey = "" \/ req.XApiKey \notin h.ApiKeys))
       => /\ hpc \in {"gate", "returned"}
          /\ trace \in {<<>>, <<"gate">>}
          /\ authCalls = 0 /\ handled = <<>> /\ logged = <<>> /\ ctx = ctx0
          /\ Served => status = StatusUnauthorized
    /\ (Served /\ h.ApiKeys = {})
       => (Len(trace) >= 2 /\ trace[2] = "basic")

\* A request with a wrong API key and a matching basic credential is denied.
C15_Witness ==
    /\ Served
    /\ h.ApiKeys = {"k1", "k2"} /\ req.XApiKey = "k3"
    /\ BasicMatch
    /\ Denied /\ trace = <<"gate">> /\ authCalls = 0

\* C16: a request that passed the gate and whose Basic-auth pair is a
\* configured credential is handed to the wrapped handler at once, its context
\* the one it arrived with: the static tokens, the Authorizer and the required
\* claims are not reached and nothing is written or logged.
C16_BasicShortcut ==
    (PassesGate /\ BasicMatch /\ hpc \notin {"idle", "gate", "basic"})
    => /\ Served
       /\ trace = <<"gate", "basic">>
       /\ handled = <<ctx0>> /\ ctx = ctx0
       /\ authCalls = 0 /\ status = NotWritten /\ logged = <<>>

\* Required claims and a claim mapping are configured, the Authorizer would
\* be asked, and the matching basic credential is served with its own context.
C16_Witness ==
    /\ Served /\ PassesGate /\ BasicMatch
    /\ h.AuthorizedClaims # <<>> /\ h.ClaimMapping # {} /\ ctx0 # {}
    /\ handled = <<ctx0>> /\ authCalls = 0

\* C17: a request that passed the gate, matched no basic credential and
\* carries a bearer value equal to a configured static token is handed to the
\* wrapped handler at the token step: the Authorizer is not called and nothing
\* is denied, whether the value decodes or not and whatever claims are required.
C17_StaticTokenShortcut ==
    (PassesGate /\ ~BasicMatch /\ TokenMatch
        /\ hpc \notin {"idle", "gate", "basic", "tokens"})
    => /\ Served
       /\ trace = <<"gate", "basic", "tokens">>
       /\ Forwarded
       /\ authCalls = 0 /\ status = NotWritten /\ logged = <<>>

\* The token "token" is not base64, claims are required, and it is served.
C17_Witness ==
    /\ Served /\ PassesGate
    /\ BearerValue = {"token"} /\ TokenMatch
    /\ h.AuthorizedClaims # <<>>
    /\ Forwarded /\ authCalls = 0 /\ ctx = ctx0

\* The claim set the request resolved to: the one decoded from the matching
\* static token, else the one the Authorizer returned.
Resolved ==
    IF TokenMatch
    THEN AuthorizedTokenMatches(CHOOSE v \in BearerValue : TRUE, req).claims
    ELSE claims

\* Some required pair matches the claim set m: m holds the expected value
\* under the key, an absent key reading as nil.
SomePairMatches(m) ==
    \E i \in 1..Len(h.AuthorizedClaims) : LET c == h.AuthorizedClaims[i] IN
        \/ <<c.Key, c.Value>> \in m.kv
        \/ c.Value = NilValue /\ \A e \in m.kv : e[1] # c.Key

C19_AuthorizerOnce ==
    /\ authCalls <= 1
    /\ (Served /\ PassesGate /\ ~BasicMatch /\ ~TokenMatch)
       => /\ authCalls = 1
          /\ authErr # NoErr
               => /\ Denied
                  /\ logged = <<authErr>>
                  /\ ctx = ctx0
                  /\ trace = <<"gate", "basic", "tokens", "authorize">>

\* The Authorizer failed while returning claims that a required pair matches
\* and the mapping would project: denied, logged, nothing projected.
C19_Witness ==
    /\ Served /\ PassesGate /\ ~BasicMatch /\ ~TokenMatch
    /\ authCalls = 1 /\ authErr = ErrInvalidSignature
    /\ claims = Map({<<"key", "value">>})
    /\ h.AuthorizedClaims # <<>> /\ h.ClaimMapping # {}
    /\ Denied /\ logged = <<ErrInvalidSignature>> /\ ctx = ctx0

\* C20: with no basic credential, no static token and no required claim
\* configured, a request that passed the gate is handed to the wrapped
\* handler exactly when the Authorizer returns no error, and is answered 401
\* otherwise.
C20_AuthorizerAloneDecides ==
    (Served /\ PassesGate /\ h.BasicAuthCredentials = {} /\ h.AuthorizedTokens = {}
        /\ h.AuthorizedClaims = <<>>)
    => /\ authCalls = 1
       /\ Forwarded <=> authErr = NoErr
       /\ ~Forwarded => Denied

\* Nothing static is configured and the Authorizer returned nil claims and no
\* error: the request, carrying a bearer value, is served.
C20_Witness ==
    /\ Served /\ PassesGate
    /\ h.BasicAuthCredentials = {} /\ h.AuthorizedTokens = {} /\ h.AuthorizedClaims = <<>>
    /\ authCalls = 1 /\ authErr = NoErr /\ claims = NilMap
    /\ Forwarded /\ status = NotWritten

\* ServeHTTP is over for the request: it returned or it panicked.
Ended == hpc \in {"returned", "panicked"}

\* C21 as stated: with the no-op Authorizer and a required claim configured,
\* every request matching no basic credential and no static token is denied.
C21_NoopDeniedWhenClaimRequired ==
    (Ended /\ h.Authorizer = "noop" /\ h.AuthorizedClaims # <<>>
        /\ ~BasicMatch /\ ~TokenMatch)
    => Denied

\* A claim set was resolved for the request and updateContext was called with
\* it: a static token matched, or the Authorizer returned no error.
Projected ==
    \/ Served /\ PassesGate /\ ~BasicMatch /\ TokenMatch
    \/ authCalls = 1 /\ authErr = NoErr

\* C22: once updateContext was called with a resolved claim set that is not
\* nil, every context key of the ClaimMapping holds the claim set's value
\* under the mapped claim name, a present nil when the claim set has no such
\* claim, and every other key of the context is as it arrived; with a nil
\* claim set the whole context is as it arrived.
C22_Projection ==
    Projected
    => IF Resolved.isNil THEN ctx = ctx0
       ELSE /\ \A m \in h.ClaimMapping :
                 \/ \E e \in Resolved.kv : e[1] = m[2] /\ <<m[1], e[2]>> \in ctx
                 \/ /\ \A e \in Resolved.kv : e[1] # m[2]
                    /\ <<m[1], NilValue>> \in ctx
            /\ \A m \in h.ClaimMapping : Cardinality({e \in ctx : e[1] = m[1]}) = 1
            /\ \A e \in ctx0 : (\A m \in h.ClaimMapping : m[1] # e[1]) => e \in ctx

\* The Authorizer's claims lack the mapped claim "key": the context key "key",
\* which arrived holding "old", now holds nil, and "trace" is untouched.
C22_Witness ==
    /\ authCalls = 1 /\ authErr = NoErr
    /\ claims = Map({<<"not-key", "not-value">>})
    /\ h.ClaimMapping = {<<"key", "key">>}
    /\ <<"key", "old">> \in ctx0
    /\ ctx = {<<"key", NilValue>>, <<"trace", "t1">>}

\* The request passed the gate, matched no basic credential and carries a
\* configured static token, and the chain has finished with it.
StaticTokenServed == Served /\ PassesGate /\ ~BasicMatch /\ TokenMatch

\* C23: a request matching a static token is forwarded, with the context the
\* wrapped handler sees decided by the token's value: the base64 of
\* {"claim":"value"} puts "value" under the context key mapped from "claim" and
\* a nil under every other mapped key (likewise {"key":"value"}), while a value
\* that is not base64 ("token") or not JSON (the base64 of notjson) leaves the
\* context as it arrived.
C23_StaticTokenContext ==
    StaticTokenServed
    => /\ Forwarded /\ status = NotWritten /\ handled = <<ctx>>
       /\ BearerValue = {"eyJjbGFpbSI6InZhbHVlIn0K"}
          => \A m \in h.ClaimMapping :
                <<m[1], IF m[2] = "claim" THEN "value" ELSE NilValue>> \in ctx
       /\ BearerValue = {"eyJrZXkiOiJ2YWx1ZSJ9"}
          => \A m \in h.ClaimMapping :
                <<m[1], IF m[2] = "key" THEN "value" ELSE NilValue>> \in ctx
       /\ BearerValue \subseteq {"token", "bm90anNvbg=="} => ctx = ctx0

\* The token is the base64 of {"claim":"value"} and "claim" is mapped to the
\* context key "who": the wrapped handler is called with "who" holding "value"
\* and "key", which arrived holding "old", holding nil.
C23_Witness ==
    /\ StaticTokenServed
    /\ BearerValue = {"eyJjbGFpbSI6InZhbHVlIn0K"}
    /\ h.ClaimMapping = {<<"key", "key">>, <<"who", "claim">>}
    /\ <<"key", "old">> \in ctx0
    /\ handled = <<{<<"key", NilValue>>, <<"who", "value">>, <<"trace", "t1">>}>>

\* C24 as stated: every request the chain answers with 401 - at the gate, on
\* an Authorizer error, or at the closing test - is not forwarded and has
\* exactly one error recorded through Logger.Error.
C24_EveryDenialLogged ==
    (Served /\ status = StatusUnauthorized)
    => handled = <<>> /\ Len(logged) = 1

\* C25 as stated: when the chain is done with a request, either the wrapped
\* handler was called exactly once and the chain wrote no status, or the chain
\* wrote 401 and the wrapped handler was not called.
C25_AllowOrDeny ==
    Ended => \/ Forwarded /\ status = NotWritten
             \/ Denied

\* The context c holds nothing but what arrived with the request and the
\* context keys of the ClaimMapping.
OnlyMappedKeys(c) ==
    \A e \in c : e \in ctx0 \/ \E m \in h.ClaimMapping : m[1] = e[1]

\* C26: at every point of the chain, and in every context the wrapped handler
\* is called with, each entry either arrived with the request or sits under a
\* context key of the ClaimMapping and holds the value of the claim mapped to
\* that key (nil when absent): no claim is exposed under a key that is not
\* mapped, whether the claims come from a static token or from the Authorizer.
C26_OnlyMappedClaimsExposed ==
    /\ OnlyMappedKeys(ctx)
    /\ \A i \in 1..Len(handled) : OnlyMappedKeys(handled[i])
    /\ \A e \in ctx \ ctx0 : \A m \in h.ClaimMapping :
          m[1] = e[1] => \/ <<m[2], e[2]>> \in Resolved.kv
                         \/ e[2] = NilValue /\ \A d \in Resolved.kv : d[1] # m[2]

\* The Authorizer resolves the claims key and roles, only key is mapped: the
\* wrapped handler is called with a context holding key and no trace of roles.
C26_Witness ==
    /\ Served /\ authCalls = 1
    /\ claims = Map({<<"key", "value">>, <<"roles", "[admin]">>})
    /\ h.ClaimMapping = {<<"key", "key">>}
    /\ ctx0 = {}
    /\ handled = <<{<<"key", "value">>}>>

\* A static token resolves the claim named claim and only key is mapped: the
\* wrapped handler sees nil under key and nothing under claim.
C26_WitnessStatic ==
    /\ StaticTokenServed
    /\ BearerValue = {"eyJjbGFpbSI6InZhbHVlIn0K"}
    /\ h.ClaimMapping = {<<"key", "key">>}
    /\ ctx0 = {}
    /\ handled = <<{<<"key", NilValue>>}>>

\* =====================================================================
\* Part 4.  The bearer authorizer of authorizer.go: Authorize takes the
\* token out of the Authorization header, has the Notary validate it and
\* lifts the mapped claims into the request's context.
\* =====================================================================
ErrMissingAuthorizationHeader == "Missing 'Authorization' header"
ErrInvalidAuthorizationHeader == "Invalid 'Authorization' header"

\* An error of the Notary's own making, as the fake of the tests returns.
ErrNotary == "nope"

\* The test of line 115 on strings.Split(header[0], " "): a header value is
\* written as the sequence of its parts.
BearerParts_AnyScheme(parts) == Len(parts) = 2

BearerParts(parts) == Len(parts) = 2 /\ ToLower(parts[1]) = "bearer"

\* The test of line 120 on what Notarize returned.
NotarizeFailed_Never(e) == FALSE

NotarizeFailed(e) == e # NoErr

\* updateContext of the authorizer, lines 127-138: the contexts the call may
\* leave.  ClaimMapping maps a claim name to a context key, so two claims may
\* share a key; the map is ranged over in no fixed order and the claim that
\* comes last is the one the key ends with.
authorizerUpdateContext(c, mapping, data) ==
    LET keys == {m[2] : m \in mapping}
        lasts == {f \in [keys -> {m[1] : m \in mapping}] :
                     \A k \in keys : <<f[k], k>> \in mapping}
    IN {{e \in c : e[1] \notin keys} \cup {<<k, Index(data, f[k])>> : k \in keys} :
           f \in lasts}

\* New with IncludeClaimAs options, lines 76-95: pairs <<claim, key>>.
Authorizers ==
    [ClaimMapping : {{}, {<<"sub", "some-key">>},
                     {<<"sub", "key">>, <<"iss", "key">>, <<"aud", "who">>}}]

\* The values of r.Header["Authorization"], each as its parts.
HeaderValues ==
    {<<"">>, <<"blah">>, <<"not-bearer", "token">>, <<"token", "bearer">>,
     <<"bearer", "token">>, <<"Bearer", "token">>, <<"BEARER", "jwt">>,
     <<"bearer", "">>, <<"bearer", "token", "">>, <<"bearer", "", "token">>,
     <<"Basic", "dXNlcjpwYXNz">>}

AuthorizerRequests ==
    {<<>>} \cup {<<v>> : v \in HeaderValues}
    \cup {<<<<"bearer", "token">>, <<"blah">>>>, <<<<"blah">>, <<"bearer", "token">>>>}

\* What a Notary may return from Notarize: claims and an error.
NotaryResults ==
    [data : {NilMap, Map({}), Map({<<"sub", "some-value">>}),
             Map({<<"sub", "s">>, <<"iss", "i">>})},
     err : {NoErr}]
    \cup [data : {NilMap, Map({<<"sub", "some-value">>})},
          err : {ErrNotary, ErrTokenExpired}]

AuthorizerInit ==
    /\ NoNotary
    /\ NoHandler
    /\ auth \in Authorizers
    /\ apc = "idle"
    /\ areq = <<>>
    /\ actx = {} /\ actx0 = {}
    /\ notarized = <<>>
    /\ nret = NoneYet
    /\ aret = NoneYet

\* A caller calls a.Authorize(r), line 106.
AuthorizeCall(hs, c) ==
    /\ apc = "idle"
    /\ areq' = hs
    /\ actx' = c /\ actx0' = c
    /\ notarized' = <<>>
    /\ nret' = NoneYet
    /\ aret' = NoneYet
    /\ apc' = "header"
    /\ UNCHANGED <<auth, notaryVars, handlerVars>>

\* Authorize, lines 108-117: the header is there and is a bearer header.
AuthorizeHeader ==
    /\ apc = "header"
    /\ IF Len(areq) = 0
       THEN aret' = ErrMissingAuthorizationHeader /\ apc' = "returned"
       ELSE IF ~BearerParts(areq[1])
            THEN aret' = ErrInvalidAuthorizationHeader /\ apc' = "returned"
            ELSE aret' = aret /\ apc' = "notarize"
    /\ UNCHANGED <<auth, areq, actx, actx0, notarized, nret, notaryVars, handlerVars>>

\* Authorize, lines 119-125: the Notary validates parts[1]; its error is
\* returned, or its claims go into the context.
AuthorizeNotarize(res) ==
    /\ apc = "notarize"
    /\ notarized' = Append(notarized, areq[1][2])
    /\ nret' = res
    /\ IF NotarizeFailed(res.err)
       THEN aret' = res.err /\ actx' = actx
       ELSE /\ aret' = NoErr
            /\ actx' \in authorizerUpdateContext(actx, auth.ClaimMapping, res.data)
    /\ apc' = "returned"
    /\ UNCHANGED <<auth, areq, actx0, notaryVars, handlerVars>>

\* The caller is done with the request.
AuthorizeDone ==
    /\ apc = "returned"
    /\ apc' = "idle"
    /\ areq' = <<>>
    /\ actx' = {} /\ actx0' = {}
    /\ notarized' = <<>>
    /\ nret' = NoneYet
    /\ aret' = NoneYet
    /\ UNCHANGED <<auth, notaryVars, handlerVars>>

AuthorizerNext ==
    \/ \E hs \in AuthorizerRequests, c \in Contexts : AuthorizeCall(hs, c)
    \/ AuthorizeHeader
    \/ \E res \in NotaryResults : AuthorizeNotarize(res)
    \/ AuthorizeDone

AuthorizerSpec == AuthorizerInit /\ [][AuthorizerNext]_vars

\* ------------------------------------------------------- what is claimed
\* The first value of the header read without Authorize's own test: two
\* parts, the first one of the spellings of bearer.
WellFormedBearer ==
    /\ Len(areq) > 0
    /\ Len(areq[1]) = 2
    /\ areq[1][1] \in {"bearer", "Bearer", "BEARER"}

AuthorizeReturned == apc = "returned"

\* C27: Authorize returns ErrMissingAuthorizationHeader for a request with no
\* Authorization header and ErrInvalidAuthorizationHeader for one whose header
\* is not two space-separated parts with bearer, in any case, first; either
\* way Notarize was not called and the context is as it arrived.
C27_HeaderErrors ==
    AuthorizeReturned
    => /\ Len(areq) = 0
          => aret = ErrMissingAuthorizationHeader /\ notarized = <<>> /\ actx = actx0
       /\ (Len(areq) > 0 /\ ~WellFormedBearer)
          => aret = ErrInvalidAuthorizationHeader /\ notarized = <<>> /\ actx = actx0

\* Authorize has returned ErrInvalidAuthorizationHeader for the header
\* "not-bearer token", two parts with another scheme first.
C27_Witness ==
    /\ AuthorizeReturned
    /\ areq = <<<<"not-bearer", "token">>>>
    /\ aret = ErrInvalidAuthorizationHeader
    /\ notarized = <<>>
    /\ actx0 # {} /\ actx = actx0

\* C28: for a header of two parts with bearer first, Authorize has called
\* Notarize once, with the second part, and has returned the error Notarize
\* returned: that very error when there is one, nil when there is none.
C28_NotaryDecides ==
    (AuthorizeReturned /\ WellFormedBearer)
    => /\ notarized = <<areq[1][2]>>
       /\ nret \in NotaryResults
       /\ aret = nret.err

\* Authorize was called with "Bearer token", Notarize was given "token" and
\* failed, and Authorize has returned that error.
C28_Witness ==
    /\ AuthorizeReturned
    /\ areq = <<<<"Bearer", "token">>>>
    /\ notarized = <<"token">>
    /\ nret.err = ErrNotary
    /\ aret = ErrNotary

\* Notarize succeeded with the subject and Authorize has returned nil, the
\* mapped context key holding the subject.
C28_WitnessSuccess ==
    /\ AuthorizeReturned
    /\ areq = <<<<"bearer", "token">>>>
    /\ notarized = <<"token">>
    /\ nret = [data |-> Map({<<"sub", "some-value">>}), err |-> NoErr]
    /\ aret = NoErr
    /\ auth.ClaimMapping = {<<"sub", "some-key">>}
    /\ <<"some-key", "some-value">> \in actx

\* =====================================================================
\* The key-set document of the notary (specification Spec).
\* =====================================================================
\* C29 as stated: when a call whose first run failed for want of a verifying
\* key has refreshed alone, the endpoint answering with a key-set document
\* that lists the key the token was signed with, the call does not return
\* ErrInvalidSignature.
C29_AnyListedKeyVerifies ==
    \A p \in Procs :
        (/\ pc[p] = "done"
         /\ first[p] \in {ErrNoPublicKey, ErrInvalidSignature}
         /\ respKind[p] = "keys" /\ refreshErr[p] = NoErr
         /\ requests = fetches[p]
         /\ listed[p])
        => err[p] # ErrInvalidSignature

\* C30 as stated: whatever the endpoint answers, the refresh stores a key or
\* hands an error to its Notarize call; no call is cut short by a panic.
C30_NoRefreshIsFatal ==
    \A p \in Procs :
        respKind[p] # NoneYet => pc[p] \notin {"panicking", "panicked"}

\* =====================================================================
\* Progress of the notary (specification FairSpec).
\* =====================================================================
\* The steps of goroutine p inside Notarize.  The scheduler runs a goroutine
\* that can run, sync.Mutex hands the lock to a goroutine that waits for it,
\* and the GET of a fetch returns; nobody is obliged to call Notarize.
StepOf(p) ==
    \/ NotarizeCheck(p)
    \/ NotarizeVerify(p)
    \/ Lock(p)
    \/ FetchStart(p)
    \/ \E resp \in Responses : FetchReturn(p, resp)
    \/ Store(p)
    \/ Unlock(p)
    \/ PanicUnwind(p)

FairSpec == Spec /\ \A p \in Procs : WF_vars(StepOf(p))

\* C31 as stated: every Notarize call that has begun eventually returns, and
\* the mutex a refresh took is eventually free again, whatever the refresh
\* came to.
C31_CallsCompleteLockFrees ==
    /\ \A p \in Procs : (pc[p] \notin {"idle", "done"}) ~> (pc[p] = "done")
    /\ \A p \in Procs : (mutex = p) ~> (mutex = NoProc)

\* The part of C31 about the lock alone: a held mutex is eventually free, a
\* goroutine waiting at Lock eventually holds it, and a call eventually
\* returns or is unwound by the panic of line 191.
C31_LockAlwaysReleased ==
    /\ \A p \in Procs : (mutex = p) ~> (mutex = NoProc)
    /\ \A p \in Procs : (pc[p] = "lock") ~> (mutex = p)
    /\ \A p \in Procs : (pc[p] \notin {"idle", "done"}) ~> (pc[p] \in {"done", "panicked"})

\* =====================================================================
\* The closing test of the handler (specification HandlerSpec).
\* =====================================================================
\* C32: with a basic credential or a static token configured and no required
\* claim, a request that passed the gate and matches no configured credential
\* or token is answered 401 and not forwarded, also when the Authorizer
\* returned no error; and a request forwarded after the Authorizer succeeded,
\* no required claim matching its claims, was served by a handler with no
\* basic credential, no static token and no required claim configured.
C32_StaticConfigDeniesTheRest ==
    /\ (Served /\ PassesGate /\ h.AuthorizedClaims = <<>>
          /\ (h.BasicAuthCredentials # {} \/ h.AuthorizedTokens # {})
          /\ ~BasicMatch /\ ~TokenMatch)
       => Denied /\ authCalls = 1
    /\ (Served /\ Forwarded /\ authCalls = 1 /\ ~SomePairMatches(claims))
       => /\ h.BasicAuthCredentials = {}
          /\ h.AuthorizedTokens = {}
          /\ h.AuthorizedClaims = <<>>

\* A basic credential is configured, no required claim; the request carries
\* another password, the Authorizer returned claims and no error, and the
\* request is answered 401 with nothing logged.
C32_Witness ==
    /\ Served /\ PassesGate
    /\ h.BasicAuthCredentials # {} /\ h.AuthorizedTokens = {} /\ h.AuthorizedClaims = <<>>
    /\ req.Authorization = <<"basic", "dXNlcjp3cm9uZw==">>
    /\ authCalls = 1 /\ authErr = NoErr /\ claims = Map({<<"key", "value">>})
    /\ Denied /\ logged = <<>>

\* How ServeHTTP ended for the request.
Outcome ==
    IF Forwarded /\ status = NotWritten THEN "allow"
    ELSE IF Denied THEN "deny"
    ELSE "neither"

\* The required pair at index i and the Authorizer's claims both hold a list
\* under the pair's key: their comparison panics.
PairPanics(i) ==
    LET c == h.AuthorizedClaims[i]
    IN c.Value \in ListValues /\ \E e \in claims.kv : e[1] = c.Key /\ e[2] \in ListValues

\* The required pair at index i matches the Authorizer's claims.
PairMatches(i) ==
    LET c == h.AuthorizedClaims[i]
    IN /\ ~PairPanics(i)
       /\ \/ <<c.Key, c.Value>> \in claims.kv
          \/ c.Value = NilValue /\ \A e \in claims.kv : e[1] # c.Key

\* The outcome as a function of the request's headers, the Authorizer's
\* result and the handler's ApiKeys, BasicAuthCredentials, AuthorizedTokens
\* and AuthorizedClaims: neither the ClaimMapping nor the request's context
\* is read.
DecisionWithoutMapping ==
    LET n == Len(h.AuthorizedClaims)
        ends(i) == PairPanics(i) \/ PairMatches(i)
    IN IF ~PassesGate THEN "deny"
       ELSE IF BasicMatch \/ TokenMatch THEN "allow"
       ELSE IF authErr # NoErr THEN "deny"
       ELSE IF \E i \in 1..n : PairMatches(i) /\ \A j \in 1..(i - 1) : ~ends(j) THEN "allow"
       ELSE IF \E i \in 1..n : PairPanics(i) /\ \A j \in 1..(i - 1) : ~ends(j) THEN "neither"
       ELSE IF h.BasicAuthCredentials # {} \/ h.AuthorizedTokens # {} \/ n > 0 THEN "deny"
       ELSE "allow"

\* C33: the outcome of every request is the one DecisionWithoutMapping gives,
\* which reads no ClaimMapping and no context: two handlers that differ only
\* in their ClaimMapping end the same request, with the same Authorizer
\* result, the same way.
C33_DecisionIgnoresMapping ==
    Ended => Outcome = DecisionWithoutMapping

\* Two claims are mapped and the projection has rewritten the request's
\* context; the Authorizer's claims lack the required pair and the request is
\* denied.
C33_Witness ==
    /\ Served /\ authCalls = 1 /\ authErr = NoErr
    /\ h.ClaimMapping = {<<"key", "key">>, <<"who", "claim">>}
    /\ h.AuthorizedClaims = <<[Key |-> "key", Value |-> "value"]>>
    /\ claims = Map({<<"not-key", "not-value">>})
    /\ ctx # ctx0
    /\ Outcome = "deny"

\* The same handler but for an empty ClaimMapping, the same request and the
\* same Authorizer result: denied as well.
C33_WitnessUnmapped ==
    /\ Served /\ authCalls = 1 /\ authErr = NoErr
    /\ h.ClaimMapping = {}
    /\ h.AuthorizedClaims = <<[Key |-> "key", Value |-> "value"]>>
    /\ claims = Map({<<"not-key", "not-value">>})
    /\ ctx = ctx0
    /\ Outcome = "deny"

====
